---- MODULE Spec2Model ----
(***************************************************************************)
(* jd-kit: the file tracker (sync ledger), the template engine and the     *)
(* sync command.  File contents are sequences of one-character strings.    *)
(***************************************************************************)
EXTENDS Integers, Sequences, FiniteSets, TLC

\* ------------------------------------------------------------------ text
\* The characters that occur in the modelled files.
Alphabet == <<"{", "}", "R", "c", "r", "h", "2", ".", "x", "#">>

\* \w of the regular expression in TemplateEngine.render
WordChars == {"R", "S", "c", "r", "h", "2", "x", "o", "n", "s", "t", "u"}

Code(ch) == CHOOSE i \in 1..Len(Alphabet) : Alphabet[i] = ch

\* hashContent: sha256 hex digest.  The digest is modelled by an injective
\* numbering of the texts (digits 1..|Alphabet| in base |Alphabet|+1), so that two
\* hashes are equal exactly when the contents are.
RECURSIVE hashContent(_)
hashContent(content) ==
  IF content = <<>> THEN 0
  ELSE hashContent(SubSeq(content, 1, Len(content) - 1)) * (Len(Alphabet) + 1)
       + Code(content[Len(content)])

\* ------------------------------------------------------- template engine
RECURSIVE WordRun(_, _)
\* length of the longest run of word characters of s that starts at i
WordRun(s, i) ==
  IF i <= Len(s) /\ s[i] \in WordChars THEN 1 + WordRun(s, i + 1) ELSE 0

\* length of the match of /\{\{(\w+)\}\}/ that starts at position i, 0 if none
TokenLen(s, i) ==
  IF i + 1 <= Len(s) /\ s[i] = "{" /\ s[i + 1] = "{"
  THEN LET k == WordRun(s, i + 2)
       IN IF k >= 1 /\ i + 3 + k <= Len(s)
             /\ s[i + 2 + k] = "}" /\ s[i + 3 + k] = "}"
          THEN k + 4 ELSE 0
  ELSE 0

\* What a plain object inherits from Object.prototype, as String.replace
\* turns it into text: the property `constructor` is the function Object.
ObjectPrototype ==
  [key \in {<<"c", "o", "n", "s", "t", "r", "u", "c", "t", "o", "r">>} |->
     <<"f", "u", "n", "c", "t", "i", "o", "n", " ", "O", "b", "j", "e", "c",
       "t", "(", ")", " ", "{", " ", "[", "n", "a", "t", "i", "v", "e", " ",
       "c", "o", "d", "e", "]", " ", "}">>]

\* variables[key]: an own property, else an inherited one, else undefined
Lookup(variables, key) ==
  IF key \in DOMAIN variables THEN [defined |-> TRUE, text |-> variables[key]]
  ELSE IF key \in DOMAIN ObjectPrototype
       THEN [defined |-> TRUE, text |-> ObjectPrototype[key]]
       ELSE [defined |-> FALSE, text |-> <<>>]

\* (match, key) => this.variables[key] || match
Replacement(variables, key, match) ==
  LET value == Lookup(variables, key)
  IN IF value.defined /\ value.text # <<>> THEN value.text ELSE match

\* String.replace with a regex without the g flag: the first match only
RenderFromFirstOnly(variables, s, i) ==
  LET starts == {j \in i..Len(s) : TokenLen(s, j) > 0}
  IN IF starts = {} THEN SubSeq(s, i, Len(s))
     ELSE LET j == CHOOSE k \in starts : \A l \in starts : k <= l
              n == TokenLen(s, j)
          IN SubSeq(s, i, j - 1)
             \o Replacement(variables, SubSeq(s, j + 2, j + n - 3),
                            SubSeq(s, j, j + n - 1))
             \o SubSeq(s, j + n, Len(s))

RECURSIVE RenderFrom(_, _, _)
\* String.replace with a global regex: leftmost matches, left to right,
\* the replacement text is not scanned again
RenderFrom(variables, s, i) ==
  IF i > Len(s) THEN <<>>
  ELSE LET n == TokenLen(s, i)
       IN IF n = 0
          THEN <<s[i]>> \o RenderFrom(variables, s, i + 1)
          ELSE Replacement(variables, SubSeq(s, i + 2, i + n - 3),
                           SubSeq(s, i, i + n - 1))
               \o RenderFrom(variables, s, i + n)

render(variables, template) == RenderFrom(variables, template, 1)

\* ------------------------------------------------------------ the project
TOOLKIT_VERSION == "1.0.0"

\* templates/claude/*.md, in readdir order
mdTemplates == <<"cq-fix.md", "refactor.md">>

\* templates/claude/hooks/*.sh
shellScripts == <<"quality-gate.sh">>

\* outputPath of a command template or of a hook script
OutputPath(name) ==
  CASE name = "cq-fix.md" -> ".claude/commands/cq-fix.md"
    [] name = "refactor.md" -> ".claude/commands/refactor.md"
    [] name = "quality-gate.sh" -> ".claude/hooks/quality-gate.sh"

\* `${outputPath}.backup`
BackupPath(p) ==
  CASE p = ".claude/commands/cq-fix.md" -> ".claude/commands/cq-fix.md.backup"
    [] p = ".claude/commands/refactor.md" -> ".claude/commands/refactor.md.backup"
    [] p = ".claude/hooks/quality-gate.sh" -> ".claude/hooks/quality-gate.sh.backup"

CommandPaths == {OutputPath(mdTemplates[i]) : i \in 1..Len(mdTemplates)}
HookPaths == {OutputPath(shellScripts[i]) : i \in 1..Len(shellScripts)}
OutputPaths == CommandPaths \cup HookPaths
Paths == OutputPaths \cup {BackupPath(p) : p \in OutputPaths}

\* The text of a template in the installed release of the toolkit ("v1", or
\* "v2" after an upgrade); the texts stand for the files of templates/claude.
TemplateText(release, name) ==
  CASE name = "cq-fix.md" ->
         IF release = "v1" THEN <<"c", "{", "{", "R", "}", "}">>
                           ELSE <<"c", "2", "{", "{", "R", "}", "}">>
    [] name = "refactor.md" ->
         IF release = "v1" THEN <<"r", "{", "{", "R", "}", "}">>
                           ELSE <<"r", "2", "{", "{", "R", "}", "}">>
    [] name = "quality-gate.sh" ->
         IF release = "v1" THEN <<"h">> ELSE <<"h", "2">>

\* What promptForVariables can return: every prompted name with a non-empty
\* answer (an empty input takes the default).  One name stands for the six.
PromptAnswers == {[k \in {<<"R">>} |-> v] : v \in {<<".">>, <<"x">>}}

\* The answers of a user who accepts every default of promptForVariables
DefaultAnswers == {[k \in {<<"R">>} |-> <<".">>]}

\* What the user can type into a synced file
UserTexts == {<<"#">>}

\* The contents the tracker is called with on its own
TrackedTexts == {<<"#">>, <<"c", ".">>}

\* The three choices of promptOverwrite
Choices == {"skip", "overwrite", "backup"}

\* ------------------------------------------------------------ file system
\* A file that is not there
NoFile ==
  [exists |-> FALSE, content |-> <<>>, readable |-> TRUE, writable |-> TRUE]

File(content) ==
  [exists |-> TRUE, content |-> content, readable |-> TRUE, writable |-> TRUE]

\* fs.copy: the copy is a new file with the content and the mode of the
\* source, which the caller has read
CopyOf(file) == [File(file.content) EXCEPT !.writable = file.writable]

\* fs.writeFile: creates the file, or replaces the content of an existing
\* one and keeps its mode
WriteFile(fs, p, content) ==
  [fs EXCEPT ![p] = [exists |-> TRUE, content |-> content,
                     readable |-> IF fs[p].exists THEN fs[p].readable ELSE TRUE,
                     writable |-> IF fs[p].exists THEN fs[p].writable ELSE TRUE]]

\* ------------------------------------------------------------ the ledger
\* An entry of `synced` (TrackedFile); `tracked` says whether the key is
\* there.  The lastSync timestamp is left out: nothing reads it.
NoEntry == [tracked |-> FALSE, version |-> "", hash |-> 0, modified |-> FALSE]

NoVariables == [k \in {} |-> <<>>]

\* the fallback of FileTracker.read
EmptyMeta ==
  [version |-> TOOLKIT_VERSION,
   synced |-> [p \in OutputPaths |-> NoEntry],
   variables |-> NoVariables]

\* .claude/.toolkit-meta.json: absent, not parsable ("corrupt"), not
\* accessible (EACCES or EISDIR on every open), a ledger as the tool writes
\* it ("json"), or another JSON document: `{}` ("object") or `null`
AbsentMetaFile == [kind |-> "absent", meta |-> EmptyMeta]


\* fs.readJSON: throws unless the file can be opened and parsed
readJSON(metaFile) ==
  [raised |-> metaFile.kind \in {"corrupt", "inaccessible"},
   value |-> metaFile.meta]

\* whether `synced` is a property of what read() returns: read() hands on
\* the parsed document as it is, and neither `{}` nor `null` has it
hasSynced(metaFile) == metaFile.kind \notin {"object", "null"}

\* read without its try/catch: the error of fs.readJSON reaches the caller
readWithoutCatch(metaFile) ==
  IF metaFile.kind = "absent" THEN [raised |-> FALSE, meta |-> EmptyMeta]
  ELSE IF readJSON(metaFile).raised THEN [raised |-> TRUE, meta |-> EmptyMeta]
  ELSE [raised |-> FALSE, meta |-> readJSON(metaFile).value]

\* FileTracker.read: the fallback when the file is absent, and (catch) when
\* fs.readJSON throws; `raised` says whether the call threw
read(metaFile) ==
  IF metaFile.kind = "absent" THEN [raised |-> FALSE, meta |-> EmptyMeta]
  ELSE IF readJSON(metaFile).raised THEN [raised |-> FALSE, meta |-> EmptyMeta]
  ELSE [raised |-> FALSE, meta |-> readJSON(metaFile).value]

\* FileTracker.write: fs.writeJSON replaces the file; it throws when the path
\* cannot be opened
write(metaFile, meta) ==
  IF metaFile.kind = "inaccessible"
  THEN [raised |-> TRUE, file |-> metaFile]
  ELSE [raised |-> FALSE, file |-> [kind |-> "json", meta |-> meta]]

\* track that keeps the entry of a file that is tracked already
trackKeepsEntry(metaFile, file, content) ==
  LET meta == IF metaFile.kind = "json" THEN metaFile.meta ELSE EmptyMeta
  IN write(metaFile,
           IF meta.synced[file].tracked THEN meta
           ELSE [meta EXCEPT !.synced[file] =
                   [tracked |-> TRUE, version |-> TOOLKIT_VERSION,
                    hash |-> hashContent(content), modified |-> FALSE]])

\* track that changes the ledger in memory only and leaves the write to the
\* end of the run
trackWithoutWrite(metaFile, file, content) ==
  [raised |-> FALSE, file |-> metaFile]

\* meta.synced[file] = {version, hash, modified: false, lastSync}
withEntry(meta, file, content) ==
  [meta EXCEPT !.synced[file] =
     [tracked |-> TRUE, version |-> TOOLKIT_VERSION,
      hash |-> hashContent(content), modified |-> FALSE]]

\* track that starts from an empty ledger instead of the one on disk
trackFromEmpty(metaFile, file, content) ==
  write(metaFile, withEntry(EmptyMeta, file, content))

\* FileTracker.track: read, set synced[file], write; the assignment to
\* meta.synced[file] throws a TypeError when `synced` is not there
track(metaFile, file, content) ==
  IF ~hasSynced(metaFile) THEN [raised |-> TRUE, file |-> metaFile]
  ELSE write(metaFile, withEntry(read(metaFile).meta, file, content))

\* The same track as the steps of a process: between its read and its write
\* other processes run.
Processes == {1, 2}

NoInvocation ==
  [pc |-> "idle", file |-> "", content |-> <<>>, meta |-> EmptyMeta,
   before |-> "none"]

\* a track that takes the ledger as it is at the moment it writes
freshMeta(invocation, metaFile) == read(metaFile).meta

\* `meta`, the object track got from read() and hands to write()
heldMeta(invocation, metaFile) == invocation.meta

\* isModified that also trusts the stored `modified` flag
isModifiedTrustsFlag(metaFile, fs, file) ==
  LET tracked == IF metaFile.kind = "json" THEN metaFile.meta.synced[file]
                 ELSE NoEntry
  IN IF ~tracked.tracked THEN [raised |-> FALSE, value |-> FALSE]
     ELSE IF ~fs[file].exists THEN [raised |-> FALSE, value |-> FALSE]
     ELSE IF ~fs[file].readable THEN [raised |-> TRUE, value |-> FALSE]
     ELSE [raised |-> FALSE,
           value |-> \/ tracked.modified
                     \/ hashContent(fs[file].content) # tracked.hash]

\* isModified that counts a file without a ledger entry as modified
isModifiedWithoutEntry(metaFile, fs, file) ==
  LET tracked == read(metaFile).meta.synced[file]
  IN IF ~fs[file].exists THEN [raised |-> FALSE, value |-> FALSE]
     ELSE IF ~tracked.tracked THEN [raised |-> FALSE, value |-> TRUE]
     ELSE IF ~fs[file].readable THEN [raised |-> TRUE, value |-> FALSE]
     ELSE [raised |-> FALSE,
           value |-> hashContent(fs[file].content) # tracked.hash]

\* FileTracker.isModified; meta.synced[file] throws a TypeError when `synced`
\* is not there, fs.readFile throws on a file that cannot be read
isModified(metaFile, fs, file) ==
  LET tracked == read(metaFile).meta.synced[file]
  IN IF ~hasSynced(metaFile) THEN [raised |-> TRUE, value |-> FALSE]
     ELSE IF ~tracked.tracked THEN [raised |-> FALSE, value |-> FALSE]
     ELSE IF ~fs[file].exists THEN [raised |-> FALSE, value |-> FALSE]
     ELSE IF ~fs[file].readable THEN [raised |-> TRUE, value |-> FALSE]
     ELSE [raised |-> FALSE,
           value |-> hashContent(fs[file].content) # tracked.hash]

\* --------------------------------------------------- one candidate of a run
\* The result of one iteration of the loop over the candidates: the files and
\* the ledger file after it, whether it threw, the decision that was requested
\* ("none" when promptOverwrite was not called) and whether the destination
\* was written.
Iteration(fs, mf, raised, decision, written) ==
  [files |-> fs, metaFile |-> mf, raised |-> raised, decision |-> decision,
   written |-> written]

\* the skip of existing files left out
alreadyExistsIgnored(exists, update) == FALSE

\* the test that skips whatever exists, update or not
alreadyExistsWhatever(exists, update) == exists

\* `if (exists && !update)`: the candidate is skipped
alreadyExists(exists, update) == exists /\ ~update

\* the `continue` of the skip decision left out
proceedsAlways(choice) == TRUE

\* `if (choice === 'skip') ... continue`: the other decisions go on to render
proceeds(choice) == choice # "skip"

\* `if (choice === 'backup')`: the destination is copied to its .backup
backsUp(choice) == choice = "backup"

\* a copy that leaves a backup that is there already alone
backupOnce(fs, outputPath) ==
  IF fs[BackupPath(outputPath)].exists THEN fs
  ELSE [fs EXCEPT ![BackupPath(outputPath)] = CopyOf(fs[outputPath])]

\* fs.copy(outputPath, `${outputPath}.backup`): replaces an older backup
backup(fs, outputPath) ==
  [fs EXCEPT ![BackupPath(outputPath)] = CopyOf(fs[outputPath])]

\* One iteration of the loop of syncClaudeCommands; `choice` is what the user
\* answers if promptOverwrite is called.
syncTemplate(fs, mf, variables, text, template, update, choice) ==
  LET outputPath == OutputPath(template)
      exists == fs[outputPath].exists
      modified == isModified(mf, fs, outputPath)
      asked == exists /\ update /\ ~modified.raised /\ modified.value
      decision == IF asked THEN choice ELSE "none"
      backedUp == IF asked /\ backsUp(choice) THEN backup(fs, outputPath)
                  ELSE fs
      rendered == WriteFile(backedUp, outputPath, render(variables, text))
      tracked == track(mf, outputPath, rendered[outputPath].content)
  IN IF alreadyExists(exists, update)
     THEN Iteration(fs, mf, FALSE, "none", FALSE)
     ELSE IF exists /\ update /\ modified.raised
     THEN Iteration(fs, mf, TRUE, "none", FALSE)
     ELSE IF asked /\ ~proceeds(choice)
     THEN Iteration(fs, mf, FALSE, decision, FALSE)
     ELSE IF ~backedUp[outputPath].writable
     THEN Iteration(backedUp, mf, TRUE, decision, FALSE)
     ELSE IF ~rendered[outputPath].readable
     THEN Iteration(rendered, mf, TRUE, decision, TRUE)
     ELSE Iteration(rendered, tracked.file, tracked.raised, decision, TRUE)

\* an iteration of syncHooks that copies the script and leaves the ledger
\* alone
syncScriptUntracked(fs, mf, text, script, update, choice) ==
  LET outputPath == OutputPath(script)
      exists == fs[outputPath].exists
  IN IF exists /\ ~update THEN Iteration(fs, mf, FALSE, "none", FALSE)
     ELSE Iteration([fs EXCEPT ![outputPath] = File(text)], mf, FALSE,
                    "none", TRUE)

\* One iteration of the loop of syncHooks: the script is copied, not rendered,
\* and made executable (mode 755, so readable)
syncScript(fs, mf, text, script, update, choice) ==
  LET outputPath == OutputPath(script)
      exists == fs[outputPath].exists
      modified == isModified(mf, fs, outputPath)
      asked == exists /\ update /\ ~modified.raised /\ modified.value
      decision == IF asked THEN choice ELSE "none"
      backedUp == IF asked /\ backsUp(choice) THEN backup(fs, outputPath)
                  ELSE fs
      copied == [backedUp EXCEPT ![outputPath] = File(text)]
      tracked == track(mf, outputPath, copied[outputPath].content)
  IN IF alreadyExists(exists, update)
     THEN Iteration(fs, mf, FALSE, "none", FALSE)
     ELSE IF exists /\ update /\ modified.raised
     THEN Iteration(fs, mf, TRUE, "none", FALSE)
     ELSE IF asked /\ ~proceeds(choice)
     THEN Iteration(fs, mf, FALSE, decision, FALSE)
     ELSE Iteration(copied, tracked.file, tracked.raised, decision, TRUE)


\* ----------------------------------------------------------- syncConfigs
\* the values of the checkbox, in the order of its choices
ConfigKeys == <<"eslint", "prettier", "ts-backend">>

\* what the checkbox can return: the checked values, in that order
Selections ==
  {<<>>, <<"eslint">>, <<"prettier">>, <<"ts-backend">>,
   <<"eslint", "prettier">>, <<"eslint", "ts-backend">>,
   <<"prettier", "ts-backend">>, <<"eslint", "prettier", "ts-backend">>}

\* configMap[configKey].dest, and the `files` list of ts-backend
Dests(configKey) ==
  CASE configKey = "eslint" -> <<"eslint.config.js">>
    [] configKey = "prettier" -> <<".prettierrc">>
    [] configKey = "ts-backend" ->
         <<"backend/tsconfig.json", "backend/tsconfig.build.json">>

ConfigDests ==
  {"eslint.config.js", ".prettierrc", "backend/tsconfig.json",
   "backend/tsconfig.build.json"}

\* the packaged config a destination is copied from
SourceText(dest) == <<"c">>

\* fs.copy without the test for the destination
copyAlways(fs, dest) == [fs EXCEPT ![dest] = File(SourceText(dest))]

\* `exists ? skip : fs.copy(source, dest)`
copyUnlessExists(fs, dest) ==
  IF fs[dest].exists THEN fs ELSE [fs EXCEPT ![dest] = File(SourceText(dest))]

RECURSIVE copyEach(_, _)
copyEach(fs, dests) ==
  IF dests = <<>> THEN fs
  ELSE copyEach(copyUnlessExists(fs, Head(dests)), Tail(dests))

\* the body of `for (const configKey of configs)`
syncConfig(fs, configKey) == copyEach(fs, Dests(configKey))

NoConfigRun ==
  [files |-> [dest \in ConfigDests |-> NoFile], pc |-> "idle",
   configs |-> <<>>, selected |-> <<>>,
   pre |-> [dest \in ConfigDests |-> NoFile]]

\* -------------------------------------------------------- update notifier
\* the clock counts hours
CHECK_INTERVAL == 24

MaxNow == 50

\* the hours that pass between two steps
Hours == {1, 24}

\* package.json's version, and the versions the registry can answer with
LocalVersion == <<1, 0, 0>>
Published == <<<<1, 0, 0>>, <<1, 1, 0>>>>

NoVersion == [any |-> FALSE, version |-> <<0, 0, 0>>]
Version(v) == [any |-> TRUE, version |-> v]

RECURSIVE laterFrom(_, _, _)
laterFrom(currentParts, latestParts, i) ==
  IF i > 3 THEN FALSE
  ELSE IF latestParts[i] > currentParts[i] THEN TRUE
  ELSE IF latestParts[i] < currentParts[i] THEN FALSE
  ELSE laterFrom(currentParts, latestParts, i + 1)

\* compareVersions: latest is newer than current
compareVersions(current, latest) == laterFrom(current, latest, 1)

NoCache == [exists |-> FALSE, lastCheck |-> 0, latestVersion |-> <<0, 0, 0>>]

\* the test that fetches also when exactly the interval has passed
shouldFetchAtInterval(cache, now) ==
  ~cache.exists \/ now - cache.lastCheck >= CHECK_INTERVAL

\* !cache || now - cache.lastCheck > CHECK_INTERVAL
shouldFetch(cache, now) ==
  ~cache.exists \/ now - cache.lastCheck > CHECK_INTERVAL

NoAt == [any |-> FALSE, at |-> 0, version |-> <<0, 0, 0>>]

NoCheck ==
  [any |-> FALSE, at |-> 0, queried |-> FALSE, latest |-> NoVersion,
   notified |-> FALSE, prevQuery |-> NoAt, prevStored |-> NoAt]

NoNotifier ==
  [now |-> 0, cache |-> NoCache, registry |-> 1, check |-> NoCheck,
   queried |-> NoAt, stored |-> NoAt]

\* ------------------------------------------------ component co-location
\* The source files of the linted project, by their paths: a route, two
\* components in src/components ("c") and a file in a folder next to it
\* whose name begins with the same characters ("c2").
RouteFile == <<"r", "/", "~">>
Button == <<"c", "/", "A">>
Card == <<"c", "/", "B">>
Legacy == <<"c", "2", "/", "A">>

SourceFiles == {RouteFile, Button, Card, Legacy}

\* path.join(srcDir, componentsFolderName)
componentsFolder == <<"c">>

\* String.prototype.startsWith
startsWith(s, prefix) ==
  Len(s) >= Len(prefix) /\ SubSeq(s, 1, Len(prefix)) = prefix

\* the lists of at most two different files out of a set
ImportLists(targets) ==
  {<<>>} \cup {<<f>> : f \in targets}
         \cup {p \in targets \X targets : p[1] # p[2]}

\* extractImports of every file: the resolved paths of its import statements
ImportGraphs ==
  {g \in [SourceFiles -> ImportLists(SourceFiles \ {RouteFile})] :
     \A f \in SourceFiles \ {RouteFile} :
       \A i \in 1..Len(g[f]) : g[f][i] # f}

NoGraph == [f \in SourceFiles |-> <<>>]

\* one activation of collectComponentImportsRecursively: its file, the
\* imports the for loop has not reached, and its componentImports
Frame(filePath, imports) ==
  [filePath |-> filePath, imports |-> imports, componentImports |-> {}]

NoScan ==
  [pc |-> "idle", graph |-> NoGraph, stack |-> <<>>, visited |-> {},
   returned |-> {}]

\* ------------------------------------------------------- settings.json
\* the top-level keys of a settings document: `hooks` and one other key
SettingsKeys == {"hooks", "model"}

\* the value of a key that the document does not have
NoValue == ""

\* templateSettings.hooks
TemplateHooks == "t"

SettingsValues == {NoValue, "a", TemplateHooks}

\* .claude/settings.json: absent, not parsable, or a JSON object
AbsentSettings ==
  [kind |-> "absent", value |-> [k \in SettingsKeys |-> NoValue]]

SettingsFiles ==
  {[kind |-> kind, value |-> AbsentSettings.value] :
     kind \in {"absent", "corrupt"}}
  \cup {[kind |-> "json", value |-> v] : v \in [SettingsKeys -> SettingsValues]}

\* existingSettings: {} unless the file exists and parses
existingSettings(file) ==
  IF file.kind = "json" THEN file.value ELSE AbsentSettings.value

\* a merge that starts from the template alone
mergeFromTemplate(existing, hooks) ==
  [k \in SettingsKeys |-> IF k = "hooks" THEN hooks ELSE NoValue]

\* { ...existingSettings, hooks: templateSettings.hooks }
mergedSettings(existing, hooks) == [existing EXCEPT !["hooks"] = hooks]

NoSettings == [template |-> TRUE, file |-> AbsentSettings]

\* --------------------------------------------------------- package.json
\* a script of package.json; `defined` says whether the name is there
NoScript == [defined |-> FALSE, text |-> ""]

Script(text) == [defined |-> TRUE, text |-> text]

\* the names of template.scripts, and a script of the project's own
TemplateScripts == {"typecheck", "lint:check"}

ScriptNames == TemplateScripts \cup {"start"}

ProjectTypes == {"backend", "frontend"}

\* templates/configs/scripts.<projectType>.json
newScripts(projectType) ==
  [name \in TemplateScripts |->
     IF name = "lint:check" THEN "eslint"
     ELSE IF projectType = "backend" THEN "tsc --noEmit" ELSE "tsc -b"]

\* the commands a script of the project can have
Commands == {"", "eslint", "tsc -b", "node"}

\* JavaScript truthiness of existingScripts[name]
truthy(script) == script.defined /\ script.text # ""

NoPackageJson ==
  [exists |-> FALSE, scripts |-> [name \in ScriptNames |-> NoScript]]

PackageJsons ==
  {NoPackageJson}
  \cup {[exists |-> TRUE, scripts |-> scripts] :
          scripts \in [ScriptNames ->
                         {NoScript} \cup {Script(c) : c \in Commands}]}

\* the last run of syncNpmScripts: the project type chosen, the answers to
\* the two confirmations ("none" when the prompt was not shown) and the
\* package.json the run found
NoSync ==
  [projectType |-> "none", overwrite |-> "none", confirm |-> "none",
   before |-> NoPackageJson, wrote |-> FALSE]

NoNpm == [packageJson |-> NoPackageJson, run |-> NoSync]

\* ------------------------------------------------------------------ state
VARIABLES
  files,        \* the project's files: path -> [exists, content, readable,
                \* writable]
  metaFile,     \* .claude/.toolkit-meta.json: [kind, meta]
  release,      \* the installed release of the toolkit (its template texts)
  pc,           \* "idle", or "running" inside the loop of a sync run
  family,       \* which sync runs or ran last: "claude", "hooks", "none"
  update,       \* the --update option of the run
  meta,         \* syncClaudeCommands' local `meta`, read when the run starts
  variables,    \* syncClaudeCommands' local `variables`
  todo,         \* the candidates the loop has not reached yet
  outcome,      \* how the last run ended: "none", "ok", "error"
  last,         \* the step taken last
  pre,          \* files and metaFile as they were when the run started
  asked,        \* per destination, the decision requested in this run
  wrote,        \* the destinations this run has written
  clean,        \* destinations last written by a run that completed
  edited,       \* destinations whose content the user changed since then
  lastWritten,  \* per destination, the hash of the tool's most recent write
  errored,      \* some sync run so far ended with an error
  probe,        \* the result of the last direct call of a FileTracker method
  engine,       \* a TemplateEngine, the template handed to it and its outputs
  rerun,        \* this run repeats the run before it: same family, flag,
                \* templates and variables, and nothing happened in between
  templateDir,  \* the installed package's templates/claude: "missing",
                \* "empty" (no .md file, no hooks directory) or "installed"
  configRun,    \* syncConfigs: the config destinations and the run's position
  notifier,     \* checkForUpdates: the clock, the cache file, the registry
                \* and what the last invocation did
  invocations,  \* two processes that call track on the same ledger file,
                \* each with its position and its local `meta`
  scan,         \* the co-location lint rule's scan of one route: the import
                \* graph, the call stack, `visited` and the returned set
  settings,     \* .claude/settings.json, and whether the package has
                \* templates/claude/settings.json
  npm           \* package.json, and the last `sync --npm-scripts` with the
                \* answers it got

vars == <<files, metaFile, release, pc, family, update, meta, variables, todo,
          outcome, last, pre, asked, wrote, clean, edited, lastWritten,
          errored, probe, engine, rerun,
          templateDir, configRun, notifier, invocations,
          scan, settings, npm>>

\* what only the specification of its own component changes
apart == <<invocations, scan, settings, npm>>

\* the state of the claude and hooks families
syncState ==
  <<files, metaFile, release, pc, family, update, meta, variables, todo,
    outcome, last, pre, asked, wrote, clean, edited, lastWritten, errored,
    probe, rerun>>

\* what a sync run and the project around it leave alone
elsewhere == <<engine, templateDir, configRun, notifier, apart>>

NoProbe ==
  [op |-> "none", file |-> "", raised |-> FALSE, value |-> FALSE,
   meta |-> EmptyMeta]

NotAsked == [p \in OutputPaths |-> "none"]

\* a TemplateEngine nobody has constructed
NoEngine ==
  [phase |-> "none", variables |-> NoVariables, template |-> <<>>,
   output |-> <<>>, again |-> <<>>]

\* a project jd-kit has not been run in
FreshProject ==
  /\ files = [p \in Paths |-> NoFile]
  /\ metaFile = AbsentMetaFile
  /\ release = "v1"
  /\ pc = "idle"
  /\ family = "none"
  /\ update = FALSE
  /\ meta = EmptyMeta
  /\ variables = NoVariables
  /\ todo = <<>>
  /\ outcome = "none"
  /\ last = "init"
  /\ pre = [files |-> [p \in Paths |-> NoFile], metaFile |-> AbsentMetaFile]
  /\ asked = NotAsked
  /\ wrote = {}
  /\ clean = {}
  /\ edited = {}
  /\ lastWritten = [p \in OutputPaths |-> [any |-> FALSE, hash |-> 0]]
  /\ errored = FALSE
  /\ probe = NoProbe
  /\ rerun = FALSE

\* the components with a specification of their own, not used
Untouched ==
  /\ invocations = [i \in Processes |-> NoInvocation]
  /\ scan = NoScan
  /\ settings = NoSettings
  /\ npm = NoNpm

\* the package installed, nothing of it used yet
Unused ==
  /\ engine = NoEngine
  /\ templateDir = "installed"
  /\ configRun = NoConfigRun
  /\ notifier = NoNotifier
  /\ Untouched

Init == FreshProject /\ Unused

\* ------------------------------------------------------------- sync runs
\* the prompt for variables on every run
promptAlways(m, answers) == answers

\* the ledger's variables, or the answers to promptForVariables when the
\* ledger has none
variablesOf(m, answers) ==
  IF DOMAIN m.variables = {} THEN answers ELSE m.variables

\* syncClaudeCommands up to the loop: read the ledger, take its variables or
\* prompt for them, list the templates
StartClaude(u, answers) ==
  /\ pc = "idle"
  /\ family' = "claude"
  /\ update' = u
  /\ meta' = read(metaFile).meta
  /\ variables' = variablesOf(read(metaFile).meta, answers)
  /\ rerun' = (last = "finish" /\ outcome = "ok" /\ family = "claude"
               /\ update = u /\ variables = variables')
  /\ IF templateDir = "installed"
     THEN /\ pc' = "running"
          /\ todo' = mdTemplates
          /\ outcome' = "none"
          /\ last' = "start"
          /\ UNCHANGED templateDir
     ELSE \* no template directory (it is created), or no .md file in it
          /\ pc' = "idle"
          /\ todo' = <<>>
          /\ outcome' = "ok"
          /\ last' = "return"
          /\ templateDir' = "empty"
  /\ pre' = [files |-> files, metaFile |-> metaFile]
  /\ asked' = NotAsked
  /\ wrote' = {}
  /\ probe' = NoProbe
  /\ UNCHANGED <<engine, configRun, notifier, apart, files, metaFile, release, clean,
                 edited, lastWritten, errored>>

\* syncHooks up to the loop: list the hook scripts
StartHooks(u) ==
  /\ pc = "idle"
  /\ family' = "hooks"
  /\ update' = u
  /\ meta' = EmptyMeta
  /\ variables' = NoVariables
  /\ rerun' = (last = "finish" /\ outcome = "ok" /\ family = "hooks"
               /\ update = u)
  /\ IF templateDir = "installed"
     THEN /\ pc' = "running"
          /\ todo' = shellScripts
          /\ outcome' = "none"
          /\ last' = "start"
     ELSE \* no templates/claude/hooks directory
          /\ pc' = "idle"
          /\ todo' = <<>>
          /\ outcome' = "ok"
          /\ last' = "return"
  /\ pre' = [files |-> files, metaFile |-> metaFile]
  /\ asked' = NotAsked
  /\ wrote' = {}
  /\ probe' = NoProbe
  /\ UNCHANGED <<elsewhere, files, metaFile, release, clean, edited, lastWritten, errored>>

\* What an iteration with result r leaves behind; a throw ends the run
Record(r, p) ==
  /\ files' = r.files
  /\ metaFile' = r.metaFile
  /\ asked' = [asked EXCEPT ![p] = r.decision]
  /\ wrote' = IF r.written THEN wrote \cup {p} ELSE wrote
  /\ lastWritten' =
       IF r.written
       THEN [lastWritten EXCEPT
               ![p] = [any |-> TRUE, hash |-> hashContent(r.files[p].content)]]
       ELSE lastWritten
  /\ IF r.raised
     THEN /\ pc' = "idle"
          /\ outcome' = "error"
          /\ last' = "abort"
          /\ errored' = TRUE
          /\ todo' = todo
          /\ clean' = clean \ wrote'
          /\ edited' = edited \ wrote'
     ELSE /\ todo' = Tail(todo)
          /\ last' = "iterate"
          /\ UNCHANGED <<pc, outcome, errored, clean, edited>>
  /\ UNCHANGED <<elsewhere, release, family, update, meta, variables, pre, probe,
                 rerun>>

\* the body of `for (const template of mdTemplates)`
IterateClaude ==
  /\ pc = "running" /\ family = "claude" /\ todo # <<>>
  /\ \E choice \in Choices :
       Record(syncTemplate(files, metaFile, variables,
                           TemplateText(release, Head(todo)), Head(todo),
                           update, choice),
              OutputPath(Head(todo)))

\* the body of `for (const script of shellScripts)`
IterateHooks ==
  /\ pc = "running" /\ family = "hooks" /\ todo # <<>>
  /\ \E choice \in Choices :
       Record(syncScript(files, metaFile, TemplateText(release, Head(todo)),
                         Head(todo), update, choice),
              OutputPath(Head(todo)))

\* what syncClaudeCommands writes after the loop
finalMeta(m, vs) == [m EXCEPT !.variables = vs]

\* after the loop: meta.variables = variables; tracker.write(meta)
FinishClaude ==
  /\ pc = "running" /\ family = "claude" /\ todo = <<>>
  /\ LET w == write(metaFile, finalMeta(meta, variables))
     IN /\ metaFile' = w.file
        /\ outcome' = IF w.raised THEN "error" ELSE "ok"
        /\ last' = IF w.raised THEN "abort" ELSE "finish"
        /\ errored' = (errored \/ w.raised)
        /\ clean' = IF w.raised THEN clean \ wrote ELSE clean \cup wrote
  /\ edited' = edited \ wrote
  /\ pc' = "idle"
  /\ UNCHANGED <<elsewhere, files, release, family, update, meta, variables, todo, pre,
                 asked, wrote, lastWritten, probe, rerun>>

\* syncHooks after the loop writes nothing to the ledger; it merges the
\* hooks of the settings template, when the package has one, into
\* .claude/settings.json
FinishHooks ==
  /\ pc = "running" /\ family = "hooks" /\ todo = <<>>
  /\ pc' = "idle"
  /\ outcome' = "ok"
  /\ last' = "finish"
  /\ clean' = clean \cup wrote
  /\ edited' = edited \ wrote
  /\ settings' =
       IF settings.template
       THEN [settings EXCEPT
               !.file = [kind |-> "json",
                         value |-> mergedSettings(
                                     existingSettings(settings.file),
                                     TemplateHooks)]]
       ELSE settings
  /\ UNCHANGED <<engine, templateDir, configRun, notifier, invocations, scan,
                 npm, files, metaFile, release, family, update, meta,
                 variables, todo, pre, asked, wrote, lastWritten, errored,
                 probe, rerun>>


\* ------------------------------------------------- between two sync runs
\* The bookkeeping of the run that ended is dropped once something else
\* happens to the project.
Forget(step) ==
  /\ family' = "none"
  /\ update' = FALSE
  /\ meta' = EmptyMeta
  /\ variables' = NoVariables
  /\ todo' = <<>>
  /\ outcome' = "none"
  /\ last' = step
  /\ pre' = [files |-> files', metaFile |-> metaFile']
  /\ asked' = NotAsked
  /\ wrote' = {}
  /\ rerun' = FALSE

\* The user changes the content of a destination file, or creates it
UserEdit(p, text) ==
  /\ pc = "idle"
  /\ text # files[p].content \/ ~files[p].exists
  /\ files' = WriteFile(files, p, text)
  /\ edited' = IF files[p].exists THEN edited \cup {p} ELSE edited
  /\ probe' = NoProbe
  /\ UNCHANGED <<elsewhere, metaFile, release, pc, clean, lastWritten, errored>>
  /\ Forget("edit")

\* The user deletes a destination file
UserDelete(p) ==
  /\ pc = "idle"
  /\ files[p].exists
  /\ files' = [files EXCEPT ![p] = NoFile]
  /\ clean' = clean \ {p}
  /\ edited' = edited \ {p}
  /\ probe' = NoProbe
  /\ UNCHANGED <<elsewhere, metaFile, release, pc, lastWritten, errored>>
  /\ Forget("delete")

\* The user takes away, or gives back, the read permission of a destination
Chmod(p) ==
  /\ pc = "idle"
  /\ files[p].exists
  /\ files' = [files EXCEPT ![p].readable = ~files[p].readable]
  /\ probe' = NoProbe
  /\ UNCHANGED <<elsewhere, metaFile, release, pc, clean, edited, lastWritten, errored>>
  /\ Forget("chmod")

\* The user takes away, or gives back, the write permission of a destination
Protect(p) ==
  /\ pc = "idle"
  /\ files[p].exists
  /\ files' = [files EXCEPT ![p].writable = ~files[p].writable]
  /\ probe' = NoProbe
  /\ UNCHANGED <<elsewhere, metaFile, release, pc, clean, edited, lastWritten,
                 errored>>
  /\ Forget("protect")

\* A newer release of the toolkit is installed: the templates change
Upgrade ==
  /\ pc = "idle"
  /\ release = "v1"
  /\ release' = "v2"
  /\ probe' = NoProbe
  /\ UNCHANGED <<elsewhere, files, metaFile, pc, clean, edited, lastWritten, errored>>
  /\ Forget("upgrade")

\* The ledger file is deleted, damaged so that it does not parse any more, or
\* made inaccessible; what it held stays in the damaged or inaccessible file.
\* After that no destination counts as synced by a completed run.
DamageMetaFile(kind) ==
  /\ pc = "idle"
  /\ metaFile.kind # kind
  /\ metaFile' = [kind |-> kind,
                  meta |-> IF kind = "absent" THEN EmptyMeta ELSE metaFile.meta]
  /\ clean' = {}
  /\ probe' = NoProbe
  /\ UNCHANGED <<elsewhere, files, release, pc, edited, lastWritten, errored>>
  /\ Forget("damage")

\* The stored `modified` flag of an entry is set by hand (the documentation
\* shows ledgers with "modified": true; the tool itself writes false only)
EditMetaFlag(p) ==
  /\ pc = "idle"
  /\ metaFile.kind = "json"
  /\ metaFile.meta.synced[p].tracked
  /\ ~metaFile.meta.synced[p].modified
  /\ metaFile' = [metaFile EXCEPT !.meta.synced[p].modified = TRUE]
  /\ probe' = NoProbe
  /\ UNCHANGED <<elsewhere, files, release, pc, clean, edited, lastWritten, errored>>
  /\ Forget("flag")

\* ------------------------------------------ direct calls of the tracker
\* tracker.isModified(file), called on its own
CallIsModified(p) ==
  /\ pc = "idle"
  /\ probe' = [op |-> "isModified", file |-> p,
               raised |-> isModified(metaFile, files, p).raised,
               value |-> isModified(metaFile, files, p).value,
               meta |-> EmptyMeta]
  /\ UNCHANGED <<elsewhere, files, metaFile, release, pc, clean, edited, lastWritten,
                 errored>>
  /\ Forget("isModified")

\* tracker.track(file, content), called on its own
CallTrack(p, content) ==
  /\ pc = "idle"
  /\ ~track(metaFile, p, content).raised
  /\ metaFile' = track(metaFile, p, content).file
  /\ probe' = [op |-> "track", file |-> p, raised |-> FALSE, value |-> FALSE,
               meta |-> EmptyMeta]
  /\ UNCHANGED <<elsewhere, files, release, pc, clean, edited, lastWritten, errored>>
  /\ Forget("track")

\* tracker.track(file, content) that throws: the ledger file stays as it is
TrackRaises(p, content) ==
  /\ pc = "idle"
  /\ track(metaFile, p, content).raised
  /\ probe' = [op |-> "track", file |-> p, raised |-> TRUE, value |-> FALSE,
               meta |-> EmptyMeta]
  /\ UNCHANGED <<elsewhere, files, metaFile, release, pc, clean, edited,
                 lastWritten, errored>>
  /\ Forget("track")

\* Another program, or the user, leaves a JSON document in the ledger file
\* that is not a ledger: `{}` or `null`
WritePayload(kind) ==
  /\ pc = "idle"
  /\ metaFile.kind # kind
  /\ metaFile' = [kind |-> kind, meta |-> EmptyMeta]
  /\ clean' = {}
  /\ probe' = NoProbe
  /\ UNCHANGED <<elsewhere, files, release, pc, edited, lastWritten, errored>>
  /\ Forget("damage")

\* tracker.read(), called on its own
CallRead ==
  /\ pc = "idle"
  /\ probe' = [op |-> "read", file |-> "", raised |-> read(metaFile).raised,
               value |-> FALSE, meta |-> read(metaFile).meta]
  /\ UNCHANGED <<elsewhere, files, metaFile, release, pc, clean, edited, lastWritten,
                 errored>>
  /\ Forget("read")

\* The user writes .claude/settings.json, damages it or deletes it
UserWriteSettings(file) ==
  /\ pc = "idle"
  /\ settings.file # file
  /\ settings' = [settings EXCEPT !.file = file]
  /\ probe' = NoProbe
  /\ UNCHANGED <<engine, templateDir, configRun, notifier, invocations, scan,
                 npm, files, metaFile, release, pc, clean, edited,
                 lastWritten, errored>>
  /\ Forget("settings")

\* The package is installed with or without templates/claude/settings.json
InstallSettingsTemplate(present) ==
  /\ pc = "idle"
  /\ settings.template # present
  /\ settings' = [settings EXCEPT !.template = present]
  /\ probe' = NoProbe
  /\ UNCHANGED <<engine, templateDir, configRun, notifier, invocations, scan,
                 npm, files, metaFile, release, pc, clean, edited,
                 lastWritten, errored>>
  /\ Forget("install")

\* ------------------------------------------------------- syncNpmScripts
NpmUnchanged ==
  UNCHANGED <<syncState, engine, templateDir, configRun, notifier,
              invocations, scan, settings>>

\* the names of toAdd before the final confirmation: the template's scripts
\* that package.json lacks and, when the overwrite prompt was confirmed, the
\* conflicting ones
toAdd(existingScripts, projectType, overwrite) ==
  LET conflicts == {name \in TemplateScripts :
                      /\ truthy(existingScripts[name])
                      /\ existingScripts[name].text
                           # newScripts(projectType)[name]}
  IN {name \in TemplateScripts : ~truthy(existingScripts[name])}
     \cup (IF overwrite THEN conflicts ELSE {})

\* `jd-kit sync --npm-scripts` with the project type chosen and the answers
\* to the overwrite prompt and to the final confirmation
syncNpmScripts(projectType, overwrite, confirm) ==
  /\ LET packageJson == npm.packageJson
         existingScripts == packageJson.scripts
         conflicts == toAdd(existingScripts, projectType, TRUE)
                        \ toAdd(existingScripts, projectType, FALSE)
         adding == toAdd(existingScripts, projectType, overwrite)
         run == [NoSync EXCEPT !.projectType = projectType,
                              !.before = packageJson]
         prompted == [run EXCEPT
                        !.overwrite = IF conflicts = {} THEN "none"
                                      ELSE IF overwrite THEN "yes" ELSE "no"]
     IN IF ~packageJson.exists
        THEN npm' = [npm EXCEPT !.run = run]
        ELSE IF toAdd(existingScripts, projectType, FALSE) = {}
                /\ conflicts = {}
        THEN npm' = [npm EXCEPT !.run = run]
        ELSE IF adding = {}
        THEN npm' = [npm EXCEPT !.run = prompted]
        ELSE IF ~confirm
        THEN npm' = [npm EXCEPT !.run = [prompted EXCEPT !.confirm = "no"]]
        ELSE npm' =
               [packageJson |->
                  [packageJson EXCEPT
                     !.scripts =
                        [name \in ScriptNames |->
                           IF name \in adding
                           THEN Script(newScripts(projectType)[name])
                           ELSE existingScripts[name]]],
                run |-> [prompted EXCEPT !.confirm = "yes", !.wrote = TRUE]]
  /\ NpmUnchanged

\* The user writes package.json, or deletes it
UserWritePackageJson(packageJson) ==
  /\ npm.packageJson # packageJson
  /\ npm' = [packageJson |-> packageJson, run |-> NoSync]
  /\ NpmUnchanged

NextNpm ==
  \/ \E projectType \in ProjectTypes, overwrite \in BOOLEAN,
        confirm \in BOOLEAN :
       syncNpmScripts(projectType, overwrite, confirm)
  \/ \E packageJson \in PackageJsons : UserWritePackageJson(packageJson)

SpecNpm == Init /\ [][NextNpm]_vars

\* ---------------------------------------------------------- specification
\* The claude family of `jd-kit sync`, and what happens to the project
\* between two runs
Next ==
  \/ \E u \in BOOLEAN, answers \in DefaultAnswers : StartClaude(u, answers)
  \/ IterateClaude
  \/ FinishClaude
  \/ \E p \in CommandPaths, text \in UserTexts : UserEdit(p, text)
  \/ \E p \in CommandPaths : UserDelete(p)
  \/ \E p \in CommandPaths : Chmod(p)
  \/ Upgrade
  \/ \E kind \in {"absent", "corrupt", "inaccessible"} : DamageMetaFile(kind)

Spec == Init /\ [][Next]_vars

\* The file tracker on its own
NextTracker ==
  \/ \E p \in CommandPaths, text \in TrackedTexts : CallTrack(p, text)
  \/ \E p \in CommandPaths : CallIsModified(p)
  \/ CallRead
  \/ \E p \in CommandPaths, text \in TrackedTexts : UserEdit(p, text)
  \/ \E p \in CommandPaths : UserDelete(p)
  \/ \E p \in CommandPaths : Chmod(p)
  \/ \E kind \in {"absent", "corrupt", "inaccessible"} : DamageMetaFile(kind)
  \/ \E p \in CommandPaths : EditMetaFlag(p)

SpecTracker == Init /\ [][NextTracker]_vars

\* The file tracker on ledger files of every parsable content
NextPayloads ==
  \/ \E p \in CommandPaths, text \in TrackedTexts : CallTrack(p, text)
  \/ \E p \in CommandPaths, text \in TrackedTexts : TrackRaises(p, text)
  \/ \E p \in CommandPaths : CallIsModified(p)
  \/ CallRead
  \/ \E p \in CommandPaths, text \in TrackedTexts : UserEdit(p, text)
  \/ \E kind \in {"object", "null"} : WritePayload(kind)
  \/ DamageMetaFile("absent")

SpecPayloads == Init /\ [][NextPayloads]_vars

\* Both families, run after run without errors
NextFamilies ==
  \/ \E u \in BOOLEAN, answers \in PromptAnswers : StartClaude(u, answers)
  \/ \E u \in BOOLEAN : StartHooks(u)
  \/ IterateClaude
  \/ IterateHooks
  \/ FinishClaude
  \/ FinishHooks
  \/ \E p \in OutputPaths, text \in UserTexts : UserEdit(p, text)
  \/ \E p \in OutputPaths : UserDelete(p)
  \/ Upgrade

SpecFamilies == Init /\ [][NextFamilies]_vars

\* The hooks family in a project whose settings.json the user writes
NextSettings ==
  \/ \E u \in BOOLEAN : StartHooks(u)
  \/ IterateHooks
  \/ FinishHooks
  \/ \E file \in SettingsFiles : UserWriteSettings(file)
  \/ \E present \in BOOLEAN : InstallSettingsTemplate(present)

SpecSettings == Init /\ [][NextSettings]_vars

\* The claude family in a project whose destinations can be write-protected
NextFailing ==
  \/ \E u \in BOOLEAN, answers \in DefaultAnswers : StartClaude(u, answers)
  \/ IterateClaude
  \/ FinishClaude
  \/ \E p \in CommandPaths, text \in UserTexts : UserEdit(p, text)
  \/ \E p \in CommandPaths : UserDelete(p)
  \/ \E p \in CommandPaths : Protect(p)
  \/ Upgrade

SpecFailing == Init /\ [][NextFailing]_vars

\* The package as installed: with its templates, with an empty templates
\* directory, or without one
InitInstall ==
  /\ FreshProject
  /\ engine = NoEngine
  /\ templateDir \in {"missing", "empty", "installed"}
  /\ configRun = NoConfigRun
  /\ notifier = NoNotifier
  /\ Untouched

\* templates are added to templates/claude/, as the early return asks
AddTemplates ==
  /\ pc = "idle"
  /\ templateDir = "empty"
  /\ templateDir' = "installed"
  /\ probe' = NoProbe
  /\ UNCHANGED <<engine, configRun, notifier, apart, files, metaFile, release, pc,
                 clean, edited, lastWritten, errored>>
  /\ Forget("install")

NextInstall ==
  \/ \E u \in BOOLEAN, answers \in PromptAnswers : StartClaude(u, answers)
  \/ IterateClaude
  \/ FinishClaude
  \/ AddTemplates
  \/ \E p \in CommandPaths, text \in UserTexts : UserEdit(p, text)
  \/ \E kind \in {"corrupt", "inaccessible"} : DamageMetaFile(kind)

SpecInstall == InitInstall /\ [][NextInstall]_vars

\* ------------------------------------------------------- config family
\* syncConfigs up to the loop: the checkbox is answered
StartConfigs(selection) ==
  /\ configRun.pc # "running"
  /\ configRun' = [configRun EXCEPT
                     !.pc = IF selection = <<>> THEN "done" ELSE "running",
                     !.configs = selection,
                     !.selected = selection,
                     !.pre = configRun.files]
  /\ UNCHANGED <<syncState, apart, engine, templateDir, notifier>>

IterateConfigs ==
  /\ configRun.pc = "running" /\ configRun.configs # <<>>
  /\ configRun' = [configRun EXCEPT
                     !.files = syncConfig(configRun.files,
                                          Head(configRun.configs)),
                     !.configs = Tail(configRun.configs)]
  /\ UNCHANGED <<syncState, apart, engine, templateDir, notifier>>

\* 'Config sync complete!'
FinishConfigs ==
  /\ configRun.pc = "running" /\ configRun.configs = <<>>
  /\ configRun' = [configRun EXCEPT !.pc = "done"]
  /\ UNCHANGED <<syncState, apart, engine, templateDir, notifier>>

\* The user writes a config file of their own, or changes one
UserWriteConfig(dest, text) ==
  /\ configRun.pc # "running"
  /\ ~configRun.files[dest].exists \/ configRun.files[dest].content # text
  /\ configRun' =
       [NoConfigRun EXCEPT
          !.files = [configRun.files EXCEPT ![dest] = File(text)],
          !.pre = [configRun.files EXCEPT ![dest] = File(text)]]
  /\ UNCHANGED <<syncState, apart, engine, templateDir, notifier>>

UserDeleteConfig(dest) ==
  /\ configRun.pc # "running"
  /\ configRun.files[dest].exists
  /\ configRun' =
       [NoConfigRun EXCEPT
          !.files = [configRun.files EXCEPT ![dest] = NoFile],
          !.pre = [configRun.files EXCEPT ![dest] = NoFile]]
  /\ UNCHANGED <<syncState, apart, engine, templateDir, notifier>>

NextConfigs ==
  \/ \E selection \in Selections : StartConfigs(selection)
  \/ IterateConfigs
  \/ FinishConfigs
  \/ \E dest \in ConfigDests, text \in UserTexts : UserWriteConfig(dest, text)
  \/ \E dest \in ConfigDests : UserDeleteConfig(dest)

SpecConfigs == Init /\ [][NextConfigs]_vars

\* ------------------------------------------------------ update notifier
\* checkForUpdates; `fetched`: the registry answers with a version,
\* `writes`: the cache file can be written
checkForUpdates(fetched, writes) ==
  LET cache == notifier.cache
      now == notifier.now
      query == shouldFetch(cache, now)
      answer == Published[notifier.registry]
      latestVersion == IF query
                       THEN (IF fetched THEN Version(answer) ELSE NoVersion)
                       ELSE Version(cache.latestVersion)
      stores == query /\ fetched /\ writes
  IN /\ notifier' =
          [notifier EXCEPT
             !.cache = IF stores
                       THEN [exists |-> TRUE, lastCheck |-> now,
                             latestVersion |-> answer]
                       ELSE cache,
             !.check = [any |-> TRUE, at |-> now, queried |-> query,
                        latest |-> latestVersion,
                        notified |-> latestVersion.any
                                     /\ compareVersions(LocalVersion,
                                                        latestVersion.version),
                        prevQuery |-> notifier.queried,
                        prevStored |-> notifier.stored],
             !.queried = IF query
                         THEN [any |-> TRUE, at |-> now, version |-> <<0, 0, 0>>]
                         ELSE notifier.queried,
             !.stored = IF stores
                        THEN [any |-> TRUE, at |-> now, version |-> answer]
                        ELSE notifier.stored]
     /\ UNCHANGED <<syncState, apart, engine, templateDir, configRun>>

\* time passes
Tick(hours) ==
  /\ notifier.now + hours <= MaxNow
  /\ notifier' = [notifier EXCEPT !.now = notifier.now + hours,
                                  !.check = NoCheck]
  /\ UNCHANGED <<syncState, apart, engine, templateDir, configRun>>

\* a newer version of the package is published
Publish ==
  /\ notifier.registry < Len(Published)
  /\ notifier' = [notifier EXCEPT !.registry = notifier.registry + 1,
                                  !.check = NoCheck]
  /\ UNCHANGED <<syncState, apart, engine, templateDir, configRun>>

NextNotifier ==
  \/ \E fetched \in BOOLEAN, writes \in BOOLEAN : checkForUpdates(fetched, writes)
  \/ \E hours \in Hours : Tick(hours)
  \/ Publish

SpecNotifier == Init /\ [][NextNotifier]_vars

\* --------------------------------------------------- concurrent track
Other(i) == CHOOSE j \in Processes : j # i

\* `const meta = await this.read()` of track(file, content) in process i
TrackReads(i, file, content) ==
  /\ invocations[i].pc = "idle"
  /\ invocations' = [invocations EXCEPT
                       ![i] = [pc |-> "read", file |-> file,
                               content |-> content,
                               meta |-> read(metaFile).meta,
                               before |-> "none"]]
  /\ UNCHANGED <<syncState, engine, templateDir, configRun, notifier, scan,
                 settings, npm>>

\* `meta.synced[file] = ...; await this.write(meta)` in process i
TrackWrites(i) ==
  /\ invocations[i].pc = "read"
  /\ metaFile' = write(metaFile,
                       withEntry(heldMeta(invocations[i], metaFile),
                                 invocations[i].file,
                                 invocations[i].content)).file
  /\ invocations' = [invocations EXCEPT
                       ![i].pc = "done",
                       ![i].before = invocations[Other(i)].pc]
  /\ UNCHANGED <<files, release, pc, family, update, meta, variables, todo,
                 outcome, last, pre, asked, wrote, clean, edited, lastWritten,
                 errored, probe, rerun, engine, templateDir, configRun,
                 notifier, scan, settings, npm>>

\* both calls have returned
TrackReturns ==
  /\ \A i \in Processes : invocations[i].pc = "done"
  /\ invocations' = [i \in Processes |-> NoInvocation]
  /\ UNCHANGED <<syncState, engine, templateDir, configRun, notifier, scan,
                 settings, npm>>

NextConcurrent ==
  \/ \E i \in Processes, file \in CommandPaths, content \in TrackedTexts :
       TrackReads(i, file, content)
  \/ \E i \in Processes : TrackWrites(i)
  \/ TrackReturns

SpecConcurrent == Init /\ [][NextConcurrent]_vars

\* ------------------------------------------------ component co-location
InitScan ==
  /\ FreshProject
  /\ engine = NoEngine
  /\ templateDir = "installed"
  /\ configRun = NoConfigRun
  /\ notifier = NoNotifier
  /\ invocations = [i \in Processes |-> NoInvocation]
  /\ settings = NoSettings
  /\ npm = NoNpm
  /\ \E g \in ImportGraphs : scan = [NoScan EXCEPT !.graph = g]

ScanUnchanged ==
  UNCHANGED <<syncState, engine, templateDir, configRun, notifier,
              invocations, settings, npm>>

\* getComponentUsageMap calls collectComponentImportsRecursively(routeFile,
\* srcDir, componentsFolder, new Set())
CollectRoute ==
  /\ scan.pc = "idle"
  /\ scan' = [scan EXCEPT !.pc = "scanning",
                          !.visited = {RouteFile},
                          !.stack = <<Frame(RouteFile, scan.graph[RouteFile])>>]
  /\ ScanUnchanged

\* one turn of `for (const importPath of imports)` in the innermost call
NextImport ==
  /\ scan.pc = "scanning"
  /\ scan.stack[1].imports # <<>>
  /\ LET top == scan.stack[1]
         importPath == Head(top.imports)
         rest == [top EXCEPT !.imports = Tail(top.imports)]
         added == [rest EXCEPT
                     !.componentImports = top.componentImports \cup {importPath}]
     IN IF ~startsWith(importPath, componentsFolder)
        THEN scan' = [scan EXCEPT !.stack = <<rest>> \o Tail(scan.stack)]
        ELSE IF importPath \in scan.visited
        THEN \* the nested call returns the empty set at once
             scan' = [scan EXCEPT !.stack = <<added>> \o Tail(scan.stack)]
        ELSE scan' = [scan EXCEPT
                        !.visited = scan.visited \cup {importPath},
                        !.stack = <<Frame(importPath, scan.graph[importPath]),
                                    added>> \o Tail(scan.stack)]
  /\ ScanUnchanged

\* `return componentImports`: the caller adds the nested set to its own
ReturnImports ==
  /\ scan.pc = "scanning"
  /\ scan.stack[1].imports = <<>>
  /\ IF Len(scan.stack) = 1
     THEN scan' = [scan EXCEPT !.pc = "done", !.stack = <<>>,
                              !.returned = scan.stack[1].componentImports]
     ELSE scan' = [scan EXCEPT
                     !.stack = <<[scan.stack[2] EXCEPT
                                    !.componentImports =
                                       scan.stack[2].componentImports
                                       \cup scan.stack[1].componentImports]>>
                               \o SubSeq(scan.stack, 3, Len(scan.stack))]
  /\ ScanUnchanged

NextScan ==
  \/ CollectRoute
  \/ NextImport
  \/ ReturnImports

SpecScan == InitScan /\ [][NextScan]_vars

\* ------------------------------------------------- the template engine
\* The pieces the templates handed to an engine are put together from: an
\* opening and a closing pair of braces, words, plain text and whole tokens.
Token(word) == <<"{", "{">> \o word \o <<"}", "}">>

Parts ==
  {<<"{", "{">>, <<"}", "}">>, <<"R">>, <<".">>, Token(<<"R">>),
   Token(<<"S">>), Token(<<"c", "o", "n", "s", "t", "r", "u", "c", "t", "o", "r">>)}

MaxParts == 3

RECURSIVE Templates(_)
\* the templates of at most n pieces
Templates(n) ==
  IF n = 0 THEN {<<>>}
  ELSE Templates(n - 1) \cup {t \o p : t \in Templates(n - 1), p \in Parts}

\* the values a variable can hold: nothing, text, the name of a variable
\* and a token
Values == {<<>>, <<".">>, <<"S">>, Token(<<"S">>)}

\* new TemplateEngine(variables) for the mappings over the keys R and S
Mappings == UNION {[D -> Values] : D \in SUBSET {<<"R">>, <<"S">>}}

InitRender ==
  /\ FreshProject
  /\ templateDir = "installed"
  /\ configRun = NoConfigRun
  /\ notifier = NoNotifier
  /\ Untouched
  /\ \E vs \in Mappings, t \in Templates(MaxParts) :
       engine = [phase |-> "input", variables |-> vs, template |-> t,
                 output |-> <<>>, again |-> <<>>]

\* engine.render(template)
Render ==
  /\ engine.phase = "input"
  /\ engine' = [engine EXCEPT !.phase = "rendered",
                              !.output = render(engine.variables, engine.template)]
  /\ UNCHANGED <<syncState, apart, templateDir, configRun, notifier>>

\* engine.render(output): the output rendered once more by the same engine
RenderAgain ==
  /\ engine.phase = "rendered"
  /\ engine' = [engine EXCEPT !.phase = "rerendered",
                              !.again = render(engine.variables, engine.output)]
  /\ UNCHANGED <<syncState, apart, templateDir, configRun, notifier>>

NextRender ==
  \/ Render
  \/ RenderAgain

SpecRender == InitRender /\ [][NextRender]_vars


\* ------------------------------------------------------------ the claims
\* the entry of the persisted ledger for p, as a reader of the file sees it
Entry(mf, p) ==
  IF mf.kind = "json" THEN mf.meta.synced[p] ELSE NoEntry

\* the template a command destination is rendered from
TemplateOf(p) ==
  CHOOSE name \in {mdTemplates[i] : i \in 1..Len(mdTemplates)} :
    OutputPath(name) = p

\* what this run renders for destination p
Rendered(p) == render(variables, TemplateText(release, TemplateOf(p)))

\* when the run started, p existed with a content whose hash differs from
\* the hash of its ledger entry
WasModified(p) ==
  /\ pre.files[p].exists
  /\ Entry(pre.metaFile, p).tracked
  /\ hashContent(pre.files[p].content) # Entry(pre.metaFile, p).hash

\* C1: First sync.  When a claude run has finished, every destination that
\* did not exist when the run started holds the rendered template, and the
\* persisted ledger has an entry for it whose hash is the hash of that content.
C1_FirstSync ==
  (last = "finish" /\ family = "claude") =>
    \A p \in CommandPaths :
      ~pre.files[p].exists =>
        /\ files[p].exists
        /\ files[p].content = Rendered(p)
        /\ Entry(metaFile, p).tracked
        /\ Entry(metaFile, p).hash = hashContent(files[p].content)

\* C2: Update detection across runs.  In a `sync --claude --update` run, a
\* destination that a completed run wrote and whose content the user changed
\* afterwards is not written unless a decision was requested for it.
C2_UpdateDetection ==
  (pc = "running" /\ family = "claude" /\ update) =>
    \A p \in wrote :
      (p \in clean /\ p \in edited) => asked[p] # "none"


\* C3: Through every sequence of sync runs that end without an error, every
\* entry of the persisted ledger holds the hash of the content the tool wrote
\* most recently to the entry's path, never the hash of an earlier write.
C3_EntryHashIsLatestWrite ==
  ~errored =>
    \A p \in OutputPaths :
      Entry(metaFile, p).tracked =>
        /\ lastWritten[p].any
        /\ Entry(metaFile, p).hash = lastWritten[p].hash

\* a hooks run with --update has replaced the entry of an earlier run
C3_Witness ==
  /\ last = "finish" /\ family = "hooks" /\ update /\ ~errored
  /\ \E p \in HookPaths :
       /\ p \in wrote
       /\ Entry(pre.metaFile, p).tracked
       /\ Entry(metaFile, p).tracked
       /\ Entry(metaFile, p).hash # Entry(pre.metaFile, p).hash
       /\ Entry(metaFile, p).hash = hashContent(files[p].content)

\* C4: Modified-then-skip.  When update is requested, the destination was
\* locally modified and the decision is skip, the destination keeps its
\* content, its .backup is not written and its ledger entry stays what it was
\* when the run started.
C4_ModifiedThenSkip ==
  \A p \in CommandPaths :
    (family = "claude" /\ update /\ WasModified(p) /\ asked[p] = "skip") =>
      /\ files[p] = pre.files[p]
      /\ files[BackupPath(p)] = pre.files[BackupPath(p)]
      /\ Entry(metaFile, p) = Entry(pre.metaFile, p)

\* a finished run in which a locally modified file was skipped and another
\* destination was written
C4_Witness ==
  /\ last = "finish" /\ family = "claude" /\ update
  /\ wrote # {}
  /\ \E p \in CommandPaths :
       /\ WasModified(p)
       /\ asked[p] = "skip"
       /\ files[p].content \in UserTexts

\* C5: Modified-then-backup.  After a finished update run in which the
\* decision for a locally modified destination was backup, the .backup holds
\* the content the destination had before the run, the destination holds the
\* rendered template and the ledger entry has the hash of that new content.
C5_ModifiedThenBackup ==
  \A p \in CommandPaths :
    (last = "finish" /\ family = "claude" /\ update /\ WasModified(p)
       /\ asked[p] = "backup") =>
      /\ files[BackupPath(p)].exists
      /\ files[BackupPath(p)].content = pre.files[p].content
      /\ files[p].content = Rendered(p)
      /\ Entry(metaFile, p).tracked
      /\ Entry(metaFile, p).hash = hashContent(files[p].content)

\* C6: Modified-then-overwrite.  After a finished update run in which the
\* decision for a locally modified destination was overwrite, the destination
\* holds the rendered template, the .backup is as it was and the ledger entry
\* has the hash of the new content.
C6_ModifiedThenOverwrite ==
  \A p \in CommandPaths :
    (last = "finish" /\ family = "claude" /\ update /\ WasModified(p)
       /\ asked[p] = "overwrite") =>
      /\ files[p].content = Rendered(p)
      /\ files[BackupPath(p)] = pre.files[BackupPath(p)]
      /\ Entry(metaFile, p).tracked
      /\ Entry(metaFile, p).hash = hashContent(files[p].content)

\* C7: No-update skip.  In a run without --update, a destination that existed
\* when the run started keeps its content, no decision is requested for it,
\* and its ledger entry, present or absent, stays what it was.
C7_NoUpdateSkip ==
  (family = "claude" /\ ~update) =>
    \A p \in CommandPaths :
      pre.files[p].exists =>
        /\ files[p] = pre.files[p]
        /\ asked[p] = "none"
        /\ Entry(metaFile, p) = Entry(pre.metaFile, p)

\* a finished run without --update that skipped a tracked, locally modified
\* file and wrote another destination
C7_Witness ==
  /\ last = "finish" /\ family = "claude" /\ ~update
  /\ wrote # {}
  /\ \E p \in CommandPaths : WasModified(p) /\ files[p].content \in UserTexts

\* C8: isModified(file) is false without a ledger entry, false when the file
\* does not exist, and for a readable file with an entry it is true exactly
\* when the hash of the content differs from the stored hash, whatever the
\* stored `modified` flag; the call changes neither the ledger nor the files.
C8_IsModified ==
  [][last' = "isModified" =>
       LET p == probe'.file
           e == Entry(metaFile, p)
       IN /\ files' = files
          /\ metaFile' = metaFile
          /\ ~e.tracked => (~probe'.raised /\ ~probe'.value)
          /\ ~files[p].exists => (~probe'.raised /\ ~probe'.value)
          /\ (e.tracked /\ files[p].exists /\ files[p].readable) =>
               /\ ~probe'.raised
               /\ probe'.value = (hashContent(files[p].content) # e.hash)
    ]_vars

\* isModified answered false for a file whose entry has the flag set and whose
\* content still has the stored hash
C8_Witness ==
  /\ last = "isModified"
  /\ ~probe.raised /\ ~probe.value
  /\ files[probe.file].exists
  /\ Entry(metaFile, probe.file).tracked
  /\ Entry(metaFile, probe.file).modified

\* the candidate p of an update run has gone through the modification check
Checked(p) ==
  /\ family = "claude" /\ update
  /\ \/ last = "abort" /\ todo # <<>> /\ p = OutputPath(Head(todo))
     \/ last = "iterate" /\ p \notin {OutputPath(todo[i]) : i \in 1..Len(todo)}

\* C9: When a tracked destination exists but cannot be read at the
\* modification check, it counts as not modified (no decision is requested)
\* and the run does not end with an error.
C9_UnreadableIsNotModified ==
  \A p \in CommandPaths :
    (Checked(p) /\ pre.files[p].exists /\ ~pre.files[p].readable
       /\ Entry(pre.metaFile, p).tracked) =>
      (asked[p] = "none" /\ outcome # "error")

\* C10: read() does not raise; for a ledger file that is absent, inaccessible
\* or not parsable it returns the empty ledger (current version, no entries,
\* no variables), and it leaves the ledger file as it is.
C10_ReadNeverRaises ==
  [][last' = "read" =>
       /\ ~probe'.raised
       /\ metaFile' = metaFile
       /\ metaFile.kind # "json" =>
            probe'.meta = [version |-> "1.0.0",
                           synced |-> [p \in OutputPaths |-> NoEntry],
                           variables |-> NoVariables]
    ]_vars

\* read() returned the empty ledger for a damaged file that held entries
C10_Witness ==
  /\ last = "read"
  /\ metaFile.kind = "corrupt"
  /\ \E p \in OutputPaths : metaFile.meta.synced[p].tracked
  /\ ~probe.raised
  /\ probe.meta = EmptyMeta

RECURSIVE TokenWords(_, _)
\* the WORDs of the tokens of s from position i on
TokenWords(s, i) ==
  IF i > Len(s) THEN {}
  ELSE LET n == TokenLen(s, i)
       IN IF n = 0 THEN TokenWords(s, i + 1)
          ELSE {SubSeq(s, i + 2, i + n - 3)} \cup TokenWords(s, i + n)

RECURSIVE Substituted(_, _, _)
\* s from position i on with every token whose WORD is a key of the mapping
\* replaced by the key's value, and everything else as it is
Substituted(mapping, s, i) ==
  IF i > Len(s) THEN <<>>
  ELSE LET n == TokenLen(s, i)
           word == SubSeq(s, i + 2, i + n - 3)
       IN IF n = 0 THEN <<s[i]>> \o Substituted(mapping, s, i + 1)
          ELSE (IF word \in DOMAIN mapping THEN mapping[word]
                ELSE SubSeq(s, i, i + n - 1))
               \o Substituted(mapping, s, i + n)

RECURSIVE Outside(_, _)
\* the text of s from position i on that is outside its tokens
Outside(s, i) ==
  IF i > Len(s) THEN <<>>
  ELSE LET n == TokenLen(s, i)
       IN IF n = 0 THEN <<s[i]>> \o Outside(s, i + 1) ELSE Outside(s, i + n)

HasBrace(s) == \E i \in 1..Len(s) : s[i] \in {"{", "}"}

\* C11: render replaces every token whose WORD is a key of the mapping by
\* the key's value, whatever the value, the empty string included.
C11_KeysReplaced ==
  (engine.phase \in {"rendered", "rerendered"}
   /\ TokenWords(engine.template, 1) # {}
   /\ TokenWords(engine.template, 1) \subseteq DOMAIN engine.variables)
  => engine.output = Substituted(engine.variables, engine.template, 1)

\* C12: render leaves every token whose WORD is not a key supplied in the
\* mapping verbatim, and the text outside tokens unchanged: a template none
\* of whose tokens names a key comes out as it went in.
C12_OthersVerbatim ==
  (engine.phase \in {"rendered", "rerendered"}
   /\ TokenWords(engine.template, 1) \cap DOMAIN engine.variables = {})
  => engine.output = engine.template

\* C13: rendering is idempotent: the output of render, rendered again by the
\* same engine, is that output.
C13_Idempotent ==
  engine.phase = "rerendered" => engine.again = engine.output

\* the mappings and templates of which C13 holds: no value holds a brace and
\* the template holds none outside its tokens
BracesOnlyInTokens ==
  /\ \A key \in DOMAIN engine.variables : ~HasBrace(engine.variables[key])
  /\ ~HasBrace(Outside(engine.template, 1))

\* C13, amended: when no value of the mapping holds a brace and the template
\* holds no brace outside its tokens, the output of render, rendered again
\* by the same engine, is that output.
C13_IdempotentBracesOnlyInTokens ==
  (engine.phase = "rerendered" /\ BracesOnlyInTokens)
  => engine.again = engine.output

\* a template with a token that was replaced and one that was left, rendered
\* twice
C13_Witness ==
  /\ engine.phase = "rerendered"
  /\ BracesOnlyInTokens
  /\ engine.output # engine.template
  /\ TokenWords(engine.output, 1) # {}
  /\ engine.again = engine.output

\* C14: every claude run that finishes without error ends with the
\* persisted ledger's variables equal to the variables of the run, whether
\* or not a file was written.
C14_VariablesPersisted ==
  (family = "claude" /\ pc = "idle" /\ outcome = "ok")
  => read(metaFile).meta.variables = variables

\* the candidate a run that ended in its loop failed at
Failed == OutputPath(Head(todo))

\* C15: when rendering or writing a candidate fails, the error reaches the
\* caller, no later candidate is processed, and every candidate synced
\* earlier in the run keeps its rendered content and has a ledger entry with
\* the hash of that content.
C15_FailureKeepsEarlier ==
  (family = "claude" /\ last = "abort" /\ todo # <<>>)
  => /\ pc = "idle" /\ outcome = "error"
     /\ \A i \in 2..Len(todo) :
          /\ files[OutputPath(todo[i])] = pre.files[OutputPath(todo[i])]
          /\ files[BackupPath(OutputPath(todo[i]))]
               = pre.files[BackupPath(OutputPath(todo[i]))]
          /\ Entry(metaFile, OutputPath(todo[i]))
               = Entry(pre.metaFile, OutputPath(todo[i]))
          /\ asked[OutputPath(todo[i])] = "none"
     /\ \A p \in wrote \ {Failed} :
          /\ files[p].exists
          /\ files[p].content = Rendered(p)
          /\ Entry(metaFile, p).tracked
          /\ Entry(metaFile, p).hash = hashContent(files[p].content)

\* the second candidate could not be written after the first was synced
C15_Witness ==
  /\ family = "claude" /\ last = "abort" /\ todo # <<>>
  /\ wrote \ {Failed} # {}
  /\ Failed \notin wrote
  /\ ~files[Failed].writable

\* C16: a second run with the same templates, variables and update flag and
\* no edit in between requests no conflict decision and leaves every
\* destination's content and every ledger entry's hash as the first run left
\* them.
C16_RerunIdempotent ==
  (rerun /\ family \in {"claude", "hooks"})
  => /\ asked = NotAsked
     /\ (last = "finish" /\ outcome = "ok") =>
          \A p \in OutputPaths :
            /\ files[p].exists = pre.files[p].exists
            /\ files[p].content = pre.files[p].content
            /\ Entry(metaFile, p).tracked = Entry(pre.metaFile, p).tracked
            /\ Entry(metaFile, p).hash = Entry(pre.metaFile, p).hash

\* C17: no step of a track call or of a sync run removes a ledger entry: a
\* path that has an entry before the step has one after it.
C17_EntriesKept ==
  [][\A p \in OutputPaths :
       Entry(metaFile, p).tracked => Entry(metaFile', p).tracked]_vars

\* C18: sync --configs leaves every destination that exists unchanged; a
\* destination is written only when it did not exist.
C18_ConfigsNeverOverwritten ==
  configRun.pc \in {"running", "done"}
  => \A dest \in ConfigDests :
       /\ configRun.pre[dest].exists
            => configRun.files[dest] = configRun.pre[dest]
       /\ configRun.files[dest] # configRun.pre[dest]
            => ~configRun.pre[dest].exists

\* a run that met a config of the user's among the selected ones and created
\* another one
C18_Witness ==
  /\ configRun.pc = "done"
  /\ \E i \in 1..Len(configRun.selected) :
       \E d \in 1..Len(Dests(configRun.selected[i])) :
         LET dest == Dests(configRun.selected[i])[d]
         IN /\ configRun.pre[dest].exists
            /\ configRun.pre[dest].content # SourceText(dest)
            /\ configRun.files[dest] = configRun.pre[dest]
  /\ \E dest \in ConfigDests :
       ~configRun.pre[dest].exists /\ configRun.files[dest].exists

Candidates ==
  IF templateDir # "installed" THEN {}
  ELSE IF family = "claude" THEN CommandPaths
  ELSE IF family = "hooks" THEN HookPaths
  ELSE {}

\* the loop of the run has come to candidate p
Reached(p) ==
  /\ p \in Candidates
  /\ \/ p \notin {OutputPath(todo[i]) : i \in 1..Len(todo)}
     \/ last = "abort" /\ todo # <<>> /\ p = OutputPath(Head(todo))

\* C20: within a run of a family a conflict decision is requested for a
\* candidate exactly when its destination exists, update is requested, the
\* ledger has an entry for it and the hash of the content read from it
\* differs from the entry's hash; in every other case none is requested.
C20_DecisionExactlyOnConflict ==
  \A p \in OutputPaths :
    asked[p] # "none"
    <=> /\ Reached(p)
        /\ update
        /\ WasModified(p)
        /\ pre.files[p].readable

\* an update run that asked about one destination and went past another
\* that exists without asking
C20_Witness ==
  /\ update /\ last = "finish"
  /\ \E p \in OutputPaths : asked[p] # "none"
  /\ \E p \in OutputPaths :
       Reached(p) /\ pre.files[p].exists /\ asked[p] = "none"

\* C21: in an update run, a destination that exists and has no ledger entry
\* is overwritten with the rendered template, no decision is requested for
\* it and no .backup file is written, whatever its content was.
C21_UntrackedOverwritten ==
  \A p \in CommandPaths :
    (Reached(p) /\ update /\ pre.files[p].exists
       /\ ~Entry(pre.metaFile, p).tracked)
    => /\ files[p].exists
       /\ files[p].content = Rendered(p)
       /\ asked[p] = "none"
       /\ files[BackupPath(p)] = pre.files[BackupPath(p)]

\* a file of the user's without an entry that an update run has replaced
C21_Witness ==
  \E p \in CommandPaths :
    /\ Reached(p) /\ update /\ pre.files[p].exists
    /\ ~Entry(pre.metaFile, p).tracked
    /\ pre.files[p].content \in UserTexts
    /\ files[p].content = Rendered(p)
    /\ ~files[BackupPath(p)].exists

\* process i wrote first and process j last, both after both had read
Raced(i, j) ==
  /\ i # j
  /\ invocations[i].pc = "done" /\ invocations[j].pc = "done"
  /\ invocations[i].before = "read" /\ invocations[j].before = "done"
  /\ invocations[i].file # invocations[j].file

\* C22: when two invocations run track on different paths against the same
\* ledger file and both read it before either writes, the persisted ledger
\* ends with the entry of the one that wrote last only: the path of the
\* other has the entry, or no entry, that it had when they read.
C22_LastWriteWins ==
  \A i \in Processes, j \in Processes :
    Raced(i, j)
    => /\ metaFile.kind = "json"
       /\ metaFile.meta = withEntry(invocations[j].meta, invocations[j].file,
                                    invocations[j].content)
       /\ Entry(metaFile, invocations[i].file)
            = invocations[i].meta.synced[invocations[i].file]

\* two racing calls on a ledger without entries: one entry is there, the
\* other is not
C22_Witness ==
  \E i \in Processes, j \in Processes :
    /\ Raced(i, j)
    /\ Entry(metaFile, invocations[j].file).tracked
    /\ ~Entry(metaFile, invocations[i].file).tracked

\* the step is an iteration in which track(p, content) was called and
\* returned
Tracks(p) ==
  /\ pc = "running" /\ todo # <<>> /\ p = OutputPath(Head(todo))
  /\ last' = "iterate" /\ p \in wrote'

\* C23: track(path, content) changes the entry for path only: after it
\* returns that entry has the hash of content, modified = false and the
\* toolkit version, and every other entry and the variables of the persisted
\* ledger are as before the call.
C23_TrackFrame ==
  [][\A p \in OutputPaths :
       Tracks(p)
       => /\ Entry(metaFile', p)
               = [tracked |-> TRUE, version |-> TOOLKIT_VERSION,
                  hash |-> hashContent(files'[p].content), modified |-> FALSE]
          /\ \A q \in OutputPaths \ {p} :
               Entry(metaFile', q) = Entry(metaFile, q)
          /\ read(metaFile').meta.variables = read(metaFile).meta.variables]_vars

\* track has just added an entry to a ledger that holds another entry and
\* variables
C23_Witness ==
  /\ last = "iterate"
  /\ DOMAIN read(metaFile).meta.variables # {}
  /\ \E p \in wrote, q \in OutputPaths \ wrote :
       /\ Entry(metaFile, p).tracked
       /\ ~Entry(pre.metaFile, p).tracked
       /\ Entry(metaFile, q).tracked

\* C24: backups are not versioned: after a run that backed a destination up,
\* its .backup holds the content the destination had just before that run,
\* whatever an earlier backup held.
C24_BackupReplaced ==
  \A p \in OutputPaths :
    (Reached(p) /\ asked[p] = "backup")
    => /\ files[BackupPath(p)].exists
       /\ files[BackupPath(p)].content = pre.files[p].content

\* the second backup of a destination, over a first one with another content
C24_Witness ==
  \E p \in OutputPaths :
    /\ Reached(p) /\ asked[p] = "backup" /\ last = "finish"
    /\ pre.files[BackupPath(p)].exists
    /\ pre.files[BackupPath(p)].content # pre.files[p].content
    /\ files[BackupPath(p)].content = pre.files[p].content

\* the variables of the persisted ledger, as read() returns them
Persisted(mf) == read(mf).meta.variables

\* C25: once the persisted ledger holds a non-empty variable set, no step
\* changes it, and a claude run takes exactly that set, without prompting,
\* and renders every file it writes with it.
C25_VariablesPreserved ==
  [][DOMAIN Persisted(metaFile) # {}
     => /\ Persisted(metaFile') = Persisted(metaFile)
        /\ family' = "claude"
             => /\ variables' = Persisted(metaFile)
                /\ \A p \in wrote' :
                     files'[p].content
                       = render(Persisted(metaFile),
                                TemplateText(release', TemplateOf(p)))]_vars

\* a later run that wrote a file and finished, on a ledger that held
\* variables when it started
C25_Witness ==
  /\ family = "claude" /\ last = "finish" /\ outcome = "ok"
  /\ DOMAIN Persisted(pre.metaFile) # {}
  /\ wrote # {}
  /\ Persisted(metaFile) = Persisted(pre.metaFile)
  /\ variables = Persisted(metaFile)

\* a file of the components folder
InComponentsFolder(f) == startsWith(f, componentsFolder \o <<"/">>)

RECURSIVE ReachableFrom(_, _)
\* the components-folder files that chains of imports inside the components
\* folder lead to from the route and from the files of `found`
ReachableFrom(graph, found) ==
  LET more == {f \in SourceFiles :
                 /\ InComponentsFolder(f)
                 /\ \E g \in found \cup {RouteFile} :
                      \E i \in 1..Len(graph[g]) : graph[g][i] = f}
  IN IF more \subseteq found THEN found
     ELSE ReachableFrom(graph, found \cup more)

\* C26: the scan of a route ends and returns exactly the files of the
\* components folder that the route reaches through chains of imports that
\* stay inside the components folder.
C26_ScanReturnsReachable ==
  scan.pc = "done" => scan.returned = ReachableFrom(scan.graph, {})

\* C27: whatever parsable document the ledger file holds, a track or an
\* isModified that follows read() completes without raising.
C27_ParsableNeverRaises ==
  (/\ last \in {"track", "isModified"}
   /\ probe.op \in {"track", "isModified"}
   /\ metaFile.kind \in {"json", "object", "null"}) => ~probe.raised

\* C28: when a hooks run has finished without error, every hook script it
\* wrote has an entry in the persisted ledger with the hash of the script's
\* content on disk; and a hooks run with --update requests a decision for a
\* hook that a finished run wrote exactly when the user changed its content
\* after that run.
C28_HooksTracked ==
  /\ (last = "finish" /\ family = "hooks" /\ outcome = "ok") =>
       \A p \in wrote :
         /\ Entry(metaFile, p).tracked
         /\ Entry(metaFile, p).hash = hashContent(files[p].content)
  /\ (pc = "running" /\ family = "hooks" /\ update) =>
       \A p \in HookPaths :
         p \in clean => (asked[p] # "none" <=> Reached(p) /\ p \in edited)

\* a hooks run with --update found a hook changed since an earlier run wrote
\* it, asked, and wrote and tracked it again
C28_Witness ==
  /\ last = "finish" /\ family = "hooks" /\ update /\ outcome = "ok"
  /\ \E p \in HookPaths :
       /\ asked[p] \in {"overwrite", "backup"}
       /\ p \in wrote
       /\ Entry(pre.metaFile, p).tracked
       /\ hashContent(pre.files[p].content) # Entry(pre.metaFile, p).hash
       /\ Entry(metaFile, p).hash = hashContent(files[p].content)

\* the step of a hooks run that follows its loop
AfterHooksLoop ==
  pc = "running" /\ family = "hooks" /\ todo = <<>> /\ pc' = "idle"

\* C29: the merge at the end of a hooks run keeps every top-level key of the
\* existing settings other than `hooks` with its value and sets `hooks` to
\* the template's hooks; without a settings template the settings file is
\* not written.
C29_SettingsMerge ==
  [][AfterHooksLoop =>
       IF settings.template
       THEN /\ settings'.file.kind = "json"
            /\ settings'.file.value["hooks"] = TemplateHooks
            /\ \A k \in SettingsKeys \ {"hooks"} :
                 settings'.file.value[k] = existingSettings(settings.file)[k]
       ELSE settings'.file = settings.file]_vars

\* a hooks run has merged the template's hooks into settings that had
\* another key and other hooks
C29_Witness ==
  /\ last = "finish" /\ family = "hooks" /\ settings.template
  /\ settings.file.kind = "json"
  /\ settings.file.value["model"] = "a"
  /\ settings.file.value["hooks"] = TemplateHooks

\* C30: a script that existed with a command different from the template's
\* is replaced only when both the overwrite prompt and the final
\* confirmation were confirmed, scripts the template does not name are never
\* changed, and a declined final confirmation leaves package.json unwritten.
C30_NoChangeWithoutConsent ==
  npm.run.projectType # "none" =>
    /\ \A name \in TemplateScripts :
         (/\ npm.run.before.scripts[name].defined
          /\ npm.run.before.scripts[name].text
               # newScripts(npm.run.projectType)[name]
          /\ npm.packageJson.scripts[name] # npm.run.before.scripts[name])
         => (npm.run.overwrite = "yes" /\ npm.run.confirm = "yes")
    /\ \A name \in ScriptNames \ TemplateScripts :
         npm.packageJson.scripts[name] = npm.run.before.scripts[name]
    /\ npm.run.confirm = "no" =>
         (npm.packageJson = npm.run.before /\ ~npm.run.wrote)

====
